---- MODULE Spec2Model ----
(***************************************************************************)
(* Model of the group resolution of pyproject-toml-rs                       *)
(* (src/src/resolution.rs, called from PyProjectToml::resolve in            *)
(* src/src/lib.rs).                                                         *)
(*                                                                         *)
(* A group or extra name is a sequence of one-character strings, so that   *)
(* normalize_name can be computed on it.  A package name is a string.  An   *)
(* IndexMap is a sequence of [key, val] records in insertion order.  The    *)
(* recursion of resolve_optional_dependency / resolve_dependency_group is   *)
(* an explicit stack of frames; one action is one step of one call.         *)
(***************************************************************************)
EXTENDS Integers, Sequences, FiniteSets, TLC

VARIABLES
    project_name,           \* self_reference_name: <<>> is None, <<n>> is Some(n)
    optional_dependencies,  \* [project.optional-dependencies], the input table
    dependency_groups,      \* [dependency-groups], the input table
    resolved,               \* resolved_dependencies of resolve()
    parents,                \* the Vec<Item> of the current top-level call
    stack,                  \* the frames of the recursion, innermost last
    idx,                    \* the next key of the two loops of resolve()
    result,                 \* what resolve() returns
    walks,                  \* history: the table keys whose body walk has begun
    hits,                   \* history: the memo lookups that hit and what they returned
    previous,               \* what the resolve() before this one returned on the same input
    glob,                   \* the argument of check_pep639_glob
    glob_result             \* what check_pep639_glob returns

vars == <<project_name, optional_dependencies, dependency_groups, resolved,
          parents, stack, idx, result, walks, hits, previous, glob, glob_result>>

----------------------------------------------------------------------------
(* Bounds of the input tables. *)

\* Keys of both tables together.
MaxKeys == 2
\* Total size of the bodies of both tables (an entry counts 1, plus 1 per
\* extra beyond the first).
MaxSize == 2
\* Characters of a glob.
MaxGlobLen == 4

----------------------------------------------------------------------------
(* Names and their normalization. *)

Separators == {"-", "_", "."}

UpperCase == <<"A", "B", "C", "D", "E", "F", "G", "H", "I", "J", "K", "L", "M",
               "N", "O", "P", "Q", "R", "S", "T", "U", "V", "W", "X", "Y", "Z">>

LowerCase == <<"a", "b", "c", "d", "e", "f", "g", "h", "i", "j", "k", "l", "m",
               "n", "o", "p", "q", "r", "s", "t", "u", "v", "w", "x", "y", "z">>

Digits == {"0", "1", "2", "3", "4", "5", "6", "7", "8", "9"}

Range(s) == {s[i] : i \in 1..Len(s)}

UpperCaseLetters == Range(UpperCase)

LowerCaseLetters == Range(LowerCase)

IsUpper(c) == c \in UpperCaseLetters

ToAsciiLowercase(c) ==
    IF IsUpper(c)
    THEN LowerCase[CHOOSE i \in 1..Len(UpperCase) : UpperCase[i] = c]
    ELSE c

\* ExtraName::from_str accepts ASCII letters, digits and the separators, and
\* refuses a name that starts or ends with a separator.
IsValidExtraName(name) ==
    /\ \A i \in 1..Len(name) :
          \/ IsUpper(name[i])
          \/ name[i] \in LowerCaseLetters
          \/ name[i] \in Digits
          \/ name[i] \in Separators
    /\ (Len(name) > 0 => name[1] \notin Separators /\ name[Len(name)] \notin Separators)

\* The string of a valid ExtraName: lower case, each run of separators one "-".
RECURSIVE ExtraNameString(_, _)
ExtraNameString(name, i) ==
    IF i > Len(name) THEN <<>>
    ELSE IF name[i] \in Separators
         THEN (IF name[i - 1] \in Separators THEN <<>> ELSE <<"-">>)
              \o ExtraNameString(name, i + 1)
         ELSE <<ToAsciiLowercase(name[i])>> \o ExtraNameString(name, i + 1)

normalize_name(name) ==
    IF IsValidExtraName(name) THEN ExtraNameString(name, 1) ELSE name

----------------------------------------------------------------------------
(* Values. *)

\* A pep508 Requirement: package name, extras (ExtraName values), and the
\* version or marker constraint, kept as an opaque string.
Requirement(n, ex, c) == [name |-> n, extras |-> ex, constraint |-> c]

\* DependencyGroupSpecifier::String and ::Table.
SpecString(r) == [t |-> "String", spec |-> r]
SpecTable(g) == [t |-> "Table", include_group |-> g]

\* Item::Extra and Item::Group.
Extra(n) == [tag |-> "extra", name |-> n]
Group(n) == [tag |-> "group", name |-> n]

\* IndexMap operations.
Keys(m) == {m[i].key : i \in 1..Len(m)}
ContainsKey(m, k) == \E i \in 1..Len(m) : m[i].key = k
Get(m, k) == m[CHOOSE i \in 1..Len(m) : m[i].key = k].val

\* IndexMap::insert: a new key is appended, an existing key keeps its place
\* and takes the new value.
Insert(m, k, v) ==
    IF ContainsKey(m, k)
    THEN [i \in 1..Len(m) |-> IF m[i].key = k THEN [key |-> k, val |-> v] ELSE m[i]]
    ELSE Append(m, [key |-> k, val |-> v])

ResolvedDependencies(o, g) == [optional_dependencies |-> o, dependency_groups |-> g]

----------------------------------------------------------------------------
(* The inputs: every pair of tables within the bounds. *)

ProjectNames == {<<>>, <<"spam">>}

OptKeyNames == {<<"a">>, <<"G", "_", "o">>, <<"g", "-", "o">>}

GroupKeyNames == {<<"a">>, <<"d", "_", "v">>}

\* The names an include-group entry can carry: any string.
IncludeNames == {<<"a">>, <<"d", "_", "v">>, <<"D", "-", "v">>}

\* The extras lists of the self-referencing requirements.
ExtrasLists == {<<>>, <<<<"a">>>>, <<<<"g", "-", "o">>>>, <<<<"a">>, <<"g", "-", "o">>>>}

SeqsUpTo(S, n) == UNION {[1..k -> S] : k \in 0..n}

Requirements ==
    {Requirement("x", <<>>, ""), Requirement("y", <<>>, "<2")}
    \cup {Requirement("spam", ex, ">1") : ex \in ExtrasLists}

Specifiers ==
    {SpecString(r) : r \in {q \in Requirements : q.name # "y" /\ Len(q.extras) = 1}
                           \cup {Requirement("x", <<>>, "")}}
    \cup {SpecTable(g) : g \in IncludeNames}

RequirementOf(entry) == IF "t" \in DOMAIN entry THEN entry.spec ELSE entry

EntrySize(entry) ==
    IF "t" \in DOMAIN entry /\ entry.t = "Table" THEN 1
    ELSE IF Len(RequirementOf(entry).extras) > 1
         THEN Len(RequirementOf(entry).extras) ELSE 1

RECURSIVE BodySize(_)
BodySize(b) == IF b = <<>> THEN 0 ELSE EntrySize(Head(b)) + BodySize(Tail(b))

RECURSIVE TableSize(_)
TableSize(m) == IF m = <<>> THEN 0 ELSE BodySize(Head(m).val) + TableSize(Tail(m))

\* The tables with at most nkeys distinct keys from names, bodies from
\* bodies, and total size at most size.
RECURSIVE TablesOver(_, _, _, _)
TablesOver(names, bodies, nkeys, size) ==
    IF nkeys <= 0 THEN {<<>>}
    ELSE {<<>>} \cup
         UNION {UNION {{<<[key |-> k, val |-> b]>> \o rest :
                          rest \in TablesOver(names \ {k}, bodies, nkeys - 1,
                                              size - BodySize(b))} :
                       b \in {c \in bodies : BodySize(c) <= size}} :
                k \in names}

OptionalTables == TablesOver(OptKeyNames, SeqsUpTo(Requirements, MaxSize), MaxKeys, MaxSize)

GroupTables(o) ==
    TablesOver(GroupKeyNames, SeqsUpTo(Specifiers, MaxSize),
               MaxKeys - Len(o), MaxSize - TableSize(o))

Running == [tag |-> "Running"]

\* No call before this one; no glob checked.
NoCall == [tag |-> "NoCall"]
NotChecked == [tag |-> "NotChecked"]

\* PyProjectToml::resolve takes the name and the optional dependencies from
\* the [project] table, whose name is required: without the table there is
\* no name and there are no optional dependencies.
Init ==
    /\ project_name \in ProjectNames
    /\ optional_dependencies \in (IF project_name = <<>> THEN {<<>>} ELSE OptionalTables)
    /\ dependency_groups \in GroupTables(optional_dependencies)
    /\ resolved = ResolvedDependencies(<<>>, <<>>)
    /\ parents = <<>>
    /\ stack = <<>>
    /\ idx = 1
    /\ result = Running
    /\ walks = <<>>
    /\ hits = <<>>
    /\ previous = NoCall
    /\ glob = <<>>
    /\ glob_result = NotChecked

----------------------------------------------------------------------------
(* resolve_optional_dependency and resolve_dependency_group. *)

\* A call in progress.  st is "enter" before the lookups of the call and
\* "walk" while its loop runs over body from entry i, extra j; acc is
\* resolved_requirements; key is the table key whose body was found.
Frame(fn, name) ==
    [fn |-> fn, name |-> name, st |-> "enter", key |-> <<>>, body |-> <<>>,
     i |-> 1, j |-> 1, acc |-> <<>>]

Top == stack[Len(stack)]

\* Variant of FindExtra that compares the normalized key with the name as
\* it was passed.
FindExtraRawName(table, extra) ==
    LET found == {i \in 1..Len(table) : normalize_name(table[i].key) = extra}
    IN  IF found = {} THEN 0 ELSE CHOOSE i \in found : \A k \in found : i <= k

\* The index of the first key of the table that has the normalized form of
\* extra, 0 when there is none: iter().find(..) of resolve_optional_dependency.
FindExtra(table, extra) ==
    LET found == {i \in 1..Len(table) :
                     normalize_name(table[i].key) = normalize_name(extra)}
    IN  IF found = {} THEN 0 ELSE CHOOSE i \in found : \A k \in found : i <= k

\* Variant of FindGroup that compares normalized names, as FindExtra does.
FindGroupNormalized(table, dep_group) ==
    LET found == {i \in 1..Len(table) :
                     normalize_name(table[i].key) = normalize_name(dep_group)}
    IN  IF found = {} THEN 0 ELSE CHOOSE i \in found : \A k \in found : i <= k

\* The index of the key dep_group of the table, 0 when there is none:
\* dependency_groups.get(dep_group).
FindGroup(table, dep_group) ==
    LET found == {i \in 1..Len(table) : table[i].key = dep_group}
    IN  IF found = {} THEN 0 ELSE CHOOSE i \in found : TRUE

\* Variant of IsSelfReference with is_none_or in place of is_some_and.
IsSelfReferenceIsNoneOr(requirement) ==
    project_name = <<>> \/ project_name = <<requirement.name>>

\* Variant of IsSelfReference that takes a requirement on the project
\* itself for a self-reference only when it has extras.
IsSelfReferenceWithExtras(requirement) ==
    project_name = <<requirement.name>> /\ requirement.extras # <<>>

\* Variant of IsSelfReference that takes a requirement on the project
\* itself for a self-reference only when it has no constraint.
IsSelfReferenceUnconstrained(requirement) ==
    project_name = <<requirement.name>> /\ requirement.constraint = ""

\* project_name.is_some_and(|project_name| project_name == requirement.name).
IsSelfReference(requirement) == project_name = <<requirement.name>>

NotFound(kind, name, parent) ==
    [tag |-> "Err", kind |-> kind, name |-> name, included_by |-> parent]

\* Variant of CycleError that hands the lists resolved so far to the caller.
CycleErrorWithResolved(ps) ==
    [tag |-> "Err", kind |-> "DependencyGroupCycle", cycle |-> ps, value |-> resolved]

\* ResolveErrorKind::DependencyGroupCycle(Cycle(parents.clone())).
CycleError(ps) == [tag |-> "Err", kind |-> "DependencyGroupCycle", cycle |-> ps]

Panic == [tag |-> "Panic"]

\* Variant of StackAfterReturn whose caller drops the returned list.
StackAfterReturnDropped(val) ==
    IF Len(stack) = 1 THEN <<>> ELSE SubSeq(stack, 1, Len(stack) - 1)

\* The stack after the innermost call returned val: the caller extends its
\* resolved_requirements with it; resolve() drops it.
StackAfterReturn(val) ==
    IF Len(stack) = 1 THEN <<>>
    ELSE [SubSeq(stack, 1, Len(stack) - 1) EXCEPT ![Len(stack) - 1].acc = @ \o val]

\* The stack after the innermost call moved to the next extra or entry and
\* called callee.
StackAfterCall(i, j, callee) ==
    Append([stack EXCEPT ![Len(stack)].i = i, ![Len(stack)].j = j], callee)

\* Variant of Pop that leaves the item on the stack.
PopNothing(s) == s

\* Variant of Pop that empties the ancestor stack.
PopAll(s) == <<>>

\* parents.pop().
Pop(s) == SubSeq(s, 1, Len(s) - 1)

\* Variant of Memo that also answers, with the empty list, for a name that
\* is being resolved: a visited set in place of the ancestor stack.
MemoOrVisiting(m, name) ==
    IF ContainsKey(m, name) THEN <<Get(m, name)>>
    ELSE IF \E i \in 1..Len(parents) : parents[i].name = name THEN << <<>> >>
    ELSE <<>>

\* Variant of Memo that answers from either map: one memo for both tables,
\* keyed by the name alone.
MemoEitherTable(m, name) ==
    IF ContainsKey(resolved.optional_dependencies, name)
    THEN <<Get(resolved.optional_dependencies, name)>>
    ELSE IF ContainsKey(resolved.dependency_groups, name)
    THEN <<Get(resolved.dependency_groups, name)>>
    ELSE <<>>

\* Variant of Memo that also answers for a name that is being resolved,
\* with the list gathered for it so far: the key is inserted when its walk
\* begins and extended as the walk goes on.
MemoOfUnfinished(m, name) ==
    IF ContainsKey(m, name) THEN <<Get(m, name)>>
    ELSE LET open == {i \in 1..(Len(stack) - 1) :
                         stack[i].name = name /\ stack[i].st = "walk"}
         IN  IF open = {} THEN <<>>
             ELSE <<stack[CHOOSE i \in open : \A k \in open : i <= k].acc>>

\* Variant of Memo that never answers: no lookup of the resolved map.
MemoNever(m, name) == <<>>

\* resolved.<map>.get(name): <<>> is None, <<list>> is Some(list).
Memo(m, name) == IF ContainsKey(m, name) THEN <<Get(m, name)>> ELSE <<>>

\* Variant of InsertExtra that writes the extra into the map of the table
\* whose key resolve() is resolving.
InsertExtraIntoCallerMap(res, name, val) ==
    IF stack[1].fn = "group"
    THEN [res EXCEPT !.dependency_groups = Insert(@, name, val)]
    ELSE [res EXCEPT !.optional_dependencies = Insert(@, name, val)]

\* resolved.optional_dependencies.insert(extra.to_string(), ..).
InsertExtra(res, name, val) ==
    [res EXCEPT !.optional_dependencies = Insert(@, name, val)]

\* resolved.dependency_groups.insert(dep_group.to_string(), ..).
InsertGroup(res, name, val) ==
    [res EXCEPT !.dependency_groups = Insert(@, name, val)]

\* Variant of ResolveExtra that takes the keys in no fixed order, as the
\* iteration of a hash map does.
ResolveExtraAnyOrder ==
    /\ result = Running
    /\ stack = <<>>
    /\ idx <= Len(optional_dependencies)
    /\ \E k \in 1..Len(optional_dependencies) :
          /\ ~ContainsKey(resolved.optional_dependencies, optional_dependencies[k].key)
          /\ stack' = <<Frame("extra", optional_dependencies[k].key)>>
    /\ parents' = <<>>
    /\ idx' = idx + 1
    /\ UNCHANGED <<previous, glob, glob_result>>
    /\ UNCHANGED <<project_name, optional_dependencies, dependency_groups,
                   resolved, result, walks, hits>>

\* The loop of resolve() over the keys of optional_dependencies.
ResolveExtra ==
    /\ result = Running
    /\ stack = <<>>
    /\ idx <= Len(optional_dependencies)
    /\ stack' = <<Frame("extra", optional_dependencies[idx].key)>>
    /\ parents' = <<>>
    /\ idx' = idx + 1
    /\ UNCHANGED <<previous, glob, glob_result>>
    /\ UNCHANGED <<project_name, optional_dependencies, dependency_groups,
                   resolved, result, walks, hits>>

\* Variant of ResolveGroup that refuses a key that is also a key of the
\* optional dependencies.
ResolveGroupCollisionChecked ==
    /\ result = Running
    /\ stack = <<>>
    /\ idx > Len(optional_dependencies)
    /\ idx <= Len(optional_dependencies) + Len(dependency_groups)
    /\ LET group == dependency_groups[idx - Len(optional_dependencies)].key
       IN  IF ContainsKey(optional_dependencies, group)
           THEN /\ result' = [tag |-> "Err", kind |-> "NameCollision", name |-> group]
                /\ UNCHANGED <<stack, parents, idx>>
           ELSE /\ stack' = <<Frame("group", group)>>
                /\ parents' = <<>>
                /\ idx' = idx + 1
                /\ UNCHANGED result
    /\ UNCHANGED <<previous, glob, glob_result>>
    /\ UNCHANGED <<project_name, optional_dependencies, dependency_groups,
                   resolved, walks, hits>>

\* The loop of resolve() over the keys of dependency_groups.
ResolveGroup ==
    /\ result = Running
    /\ stack = <<>>
    /\ idx > Len(optional_dependencies)
    /\ idx <= Len(optional_dependencies) + Len(dependency_groups)
    /\ stack' = <<Frame("group", dependency_groups[idx - Len(optional_dependencies)].key)>>
    /\ parents' = <<>>
    /\ idx' = idx + 1
    /\ UNCHANGED <<previous, glob, glob_result>>
    /\ UNCHANGED <<project_name, optional_dependencies, dependency_groups,
                   resolved, result, walks, hits>>

\* Ok(resolved_dependencies) of resolve().
ReturnOk ==
    /\ result = Running
    /\ stack = <<>>
    /\ idx > Len(optional_dependencies) + Len(dependency_groups)
    /\ result' = [tag |-> "Ok", value |-> resolved]
    /\ UNCHANGED <<previous, glob, glob_result>>
    /\ UNCHANGED <<project_name, optional_dependencies, dependency_groups,
                   resolved, parents, stack, idx, walks, hits>>

\* The head of resolve_optional_dependency: the memo lookup, the lookup of
\* the table by normalized name, the cycle check and the push.
EnterExtra ==
    /\ result = Running
    /\ stack # <<>>
    /\ Top.fn = "extra"
    /\ Top.st = "enter"
    /\ LET extra == Top.name
           found == FindExtra(optional_dependencies, extra)
           item == Extra(extra)
           memo == Memo(resolved.optional_dependencies, extra)
       IN  IF memo # <<>>
           THEN /\ stack' = StackAfterReturn(memo[1])
                /\ hits' = Append(hits, [item |-> item, on_stack |-> parents,
                                        val |-> memo[1]])
                /\ UNCHANGED <<parents, result, walks>>
           ELSE IF found = 0
           THEN /\ result' = IF parents = <<>> THEN Panic
                             ELSE NotFound("OptionalDependencyNotFound", extra,
                                           parents[Len(parents)])
                /\ UNCHANGED <<parents, stack, walks, hits>>
           ELSE IF item \in Range(parents)
           THEN /\ result' = CycleError(parents)
                /\ UNCHANGED <<parents, stack, walks, hits>>
           ELSE /\ parents' = Append(parents, item)
                /\ stack' = [stack EXCEPT ![Len(stack)].st = "walk",
                                          ![Len(stack)].key = optional_dependencies[found].key,
                                          ![Len(stack)].body = optional_dependencies[found].val]
                /\ walks' = Append(walks, Extra(optional_dependencies[found].key))
                /\ UNCHANGED <<result, hits>>
    /\ UNCHANGED <<previous, glob, glob_result>>
    /\ UNCHANGED <<project_name, optional_dependencies, dependency_groups, resolved, idx>>

\* One step of the loops of resolve_optional_dependency: a requirement is
\* pushed, or the next extra of a self-reference is resolved.
WalkExtra ==
    /\ result = Running
    /\ stack # <<>>
    /\ Top.fn = "extra"
    /\ Top.st = "walk"
    /\ Top.i <= Len(Top.body)
    /\ LET requirement == Top.body[Top.i]
       IN  IF IsSelfReference(requirement)
           THEN IF Top.j <= Len(requirement.extras)
                THEN stack' = StackAfterCall(Top.i, Top.j + 1,
                                             Frame("extra", requirement.extras[Top.j]))
                ELSE stack' = [stack EXCEPT ![Len(stack)].i = @ + 1, ![Len(stack)].j = 1]
           ELSE stack' = [stack EXCEPT ![Len(stack)].i = @ + 1,
                                       ![Len(stack)].acc = Append(@, requirement)]
    /\ UNCHANGED <<previous, glob, glob_result>>
    /\ UNCHANGED <<project_name, optional_dependencies, dependency_groups, resolved,
                   parents, idx, result, walks, hits>>

\* The tail of resolve_optional_dependency: insert, pop, return.
FinishExtra ==
    /\ result = Running
    /\ stack # <<>>
    /\ Top.fn = "extra"
    /\ Top.st = "walk"
    /\ Top.i > Len(Top.body)
    /\ resolved' = InsertExtra(resolved, Top.name, Top.acc)
    /\ parents' = Pop(parents)
    /\ stack' = StackAfterReturn(Top.acc)
    /\ UNCHANGED <<previous, glob, glob_result>>
    /\ UNCHANGED <<project_name, optional_dependencies, dependency_groups,
                   idx, result, walks, hits>>

\* The head of resolve_dependency_group: the memo lookup, the lookup of the
\* table by exact key, the cycle check and the push.
EnterGroup ==
    /\ result = Running
    /\ stack # <<>>
    /\ Top.fn = "group"
    /\ Top.st = "enter"
    /\ LET dep_group == Top.name
           found == FindGroup(dependency_groups, dep_group)
           item == Group(dep_group)
           memo == Memo(resolved.dependency_groups, dep_group)
       IN  IF memo # <<>>
           THEN /\ stack' = StackAfterReturn(memo[1])
                /\ hits' = Append(hits, [item |-> item, on_stack |-> parents,
                                        val |-> memo[1]])
                /\ UNCHANGED <<parents, result, walks>>
           ELSE IF found = 0
           THEN /\ result' = IF parents = <<>> THEN Panic
                             ELSE NotFound("DependencyGroupNotFound", dep_group,
                                           parents[Len(parents)])
                /\ UNCHANGED <<parents, stack, walks, hits>>
           ELSE IF item \in Range(parents)
           THEN /\ result' = CycleError(parents)
                /\ UNCHANGED <<parents, stack, walks, hits>>
           ELSE /\ parents' = Append(parents, item)
                /\ stack' = [stack EXCEPT ![Len(stack)].st = "walk",
                                          ![Len(stack)].key = dependency_groups[found].key,
                                          ![Len(stack)].body = dependency_groups[found].val]
                /\ walks' = Append(walks, Group(dependency_groups[found].key))
                /\ UNCHANGED <<result, hits>>
    /\ UNCHANGED <<previous, glob, glob_result>>
    /\ UNCHANGED <<project_name, optional_dependencies, dependency_groups, resolved, idx>>

\* One step of the loops of resolve_dependency_group: a requirement is
\* pushed, the next extra of a self-reference is resolved in the optional
\* dependencies, or an included group is resolved.
WalkGroup ==
    /\ result = Running
    /\ stack # <<>>
    /\ Top.fn = "group"
    /\ Top.st = "walk"
    /\ Top.i <= Len(Top.body)
    /\ LET specifier == Top.body[Top.i]
       IN  IF specifier.t = "String"
           THEN IF IsSelfReference(specifier.spec)
                THEN IF Top.j <= Len(specifier.spec.extras)
                     THEN stack' = StackAfterCall(Top.i, Top.j + 1,
                                        Frame("extra", specifier.spec.extras[Top.j]))
                     ELSE stack' = [stack EXCEPT ![Len(stack)].i = @ + 1,
                                                 ![Len(stack)].j = 1]
                ELSE stack' = [stack EXCEPT ![Len(stack)].i = @ + 1,
                                            ![Len(stack)].acc = Append(@, specifier.spec)]
           ELSE stack' = StackAfterCall(Top.i + 1, 1,
                                        Frame("group", specifier.include_group))
    /\ UNCHANGED <<previous, glob, glob_result>>
    /\ UNCHANGED <<project_name, optional_dependencies, dependency_groups, resolved,
                   parents, idx, result, walks, hits>>

\* The tail of resolve_dependency_group: insert, pop, return.
FinishGroup ==
    /\ result = Running
    /\ stack # <<>>
    /\ Top.fn = "group"
    /\ Top.st = "walk"
    /\ Top.i > Len(Top.body)
    /\ resolved' = InsertGroup(resolved, Top.name, Top.acc)
    /\ parents' = Pop(parents)
    /\ stack' = StackAfterReturn(Top.acc)
    /\ UNCHANGED <<previous, glob, glob_result>>
    /\ UNCHANGED <<project_name, optional_dependencies, dependency_groups,
                   idx, result, walks, hits>>

Next ==
    \/ ResolveExtra
    \/ ResolveGroup
    \/ ReturnOk
    \/ EnterExtra
    \/ WalkExtra
    \/ FinishExtra
    \/ EnterGroup
    \/ WalkGroup
    \/ FinishGroup

Spec == Init /\ [][Next]_vars

\* resolve() is one sequential call: a step that can be taken is taken.
FairSpec == Spec /\ WF_vars(Next)

\* A second PyProjectToml::resolve() on the same value: resolve() takes &self
\* and starts from ResolvedDependencies::default() again; what the first
\* call returned is kept for comparison.
ResolveAgain ==
    /\ result # Running
    /\ previous = NoCall
    /\ previous' = result
    /\ resolved' = ResolvedDependencies(<<>>, <<>>)
    /\ parents' = <<>>
    /\ stack' = <<>>
    /\ idx' = 1
    /\ result' = Running
    /\ walks' = <<>>
    /\ hits' = <<>>
    /\ UNCHANGED <<project_name, optional_dependencies, dependency_groups,
                   glob, glob_result>>

TwiceNext == Next \/ ResolveAgain

TwiceSpec == Init /\ [][TwiceNext]_vars

----------------------------------------------------------------------------
(* The resolver of pep735_resolve.rs for the dependency groups: the lookup, *)
(* then the cycle check, then the memo.  A state of it is the resolved map, *)
(* the parents and the error, if any.                                       *)

GroupNotFound(group_name, group, parent) ==
    [tag |-> "Err", kind |-> "GroupNotFound", group_name |-> group_name,
     name |-> group, included_by |-> parent]

DependencyGroupCycle(table_name, cycle) ==
    [tag |-> "Err", kind |-> "DependencyGroupCycle", table_name |-> table_name,
     cycle |-> cycle]

\* Variant of ExtendWithResolved that adds nothing.
ExtendWithNothing(requirements, res, group) == requirements

\* requirements.extend(resolved.get(group).into_iter().flatten().cloned()).
ExtendWithResolved(requirements, res, group) ==
    requirements \o (IF ContainsKey(res, group) THEN Get(res, group) ELSE <<>>)

\* resolve_group, and its loop over the items of the group from item i.
RECURSIVE resolve_group(_, _, _), resolve_group_items(_, _, _, _, _)
resolve_group(group, groups, st) ==
    IF ~ContainsKey(groups, group)
    THEN [st EXCEPT !.err = IF st.parents = <<>> THEN <<Panic>>
                            ELSE <<GroupNotFound("dependency group", group,
                                                 st.parents[Len(st.parents)])>>]
    ELSE IF group \in Range(st.parents)
    THEN [st EXCEPT !.err = <<DependencyGroupCycle("dependency-groups", st.parents)>>]
    ELSE IF ContainsKey(st.resolved, group) THEN st
    ELSE LET out == resolve_group_items(Get(groups, group), 1, groups,
                        [st EXCEPT !.parents = Append(@, group)], <<>>)
         IN  IF out.st.err # <<>> THEN out.st
             ELSE [resolved |-> Insert(out.st.resolved, group, out.requirements),
                   parents |-> SubSeq(out.st.parents, 1, Len(out.st.parents) - 1),
                   err |-> <<>>]

resolve_group_items(items, i, groups, st, requirements) ==
    IF i > Len(items) THEN [st |-> st, requirements |-> requirements]
    ELSE IF items[i].t = "String"
    THEN resolve_group_items(items, i + 1, groups, st,
                             Append(requirements, items[i].spec))
    ELSE LET after == resolve_group(items[i].include_group, groups, st)
         IN  IF after.err # <<>> THEN [st |-> after, requirements |-> requirements]
             ELSE resolve_group_items(items, i + 1, groups, after,
                      ExtendWithResolved(requirements, after.resolved,
                                         items[i].include_group))

\* DependencyGroups::resolve: the keys in table order, from key k on, each
\* with parents of its own.
RECURSIVE DependencyGroupsResolveFrom(_, _, _)
DependencyGroupsResolveFrom(groups, k, res) ==
    IF k > Len(groups) THEN [tag |-> "Ok", value |-> res]
    ELSE LET after == resolve_group(groups[k].key, groups,
                          [resolved |-> res, parents |-> <<>>, err |-> <<>>])
         IN  IF after.err # <<>> THEN after.err[1]
             ELSE DependencyGroupsResolveFrom(groups, k + 1, after.resolved)

DependencyGroupsResolve(groups) == DependencyGroupsResolveFrom(groups, 1, <<>>)

----------------------------------------------------------------------------
(* check_pep639_glob.  A glob is the sequence of its characters; a position *)
(* is the index of a character counted from 0, as enumerate() counts.      *)

GlobChars == {"a", ".", "/", "*", "[", "]", "\\", "!", "?"}

Globs == SeqsUpTo(GlobChars, MaxGlobLen)

\* char::is_alphanumeric, on ASCII.
IsAlphanumeric(c) == c \in LowerCaseLetters \cup UpperCaseLetters \cup Digits

GlobOk == [tag |-> "Ok"]

TooManyStars(pos) == [tag |-> "Err", kind |-> "TooManyStars", pos |-> pos]

ParentDirectory(pos) == [tag |-> "Err", kind |-> "ParentDirectory", pos |-> pos]

InvalidBackslash(pos) == [tag |-> "Err", kind |-> "InvalidBackslash", pos |-> pos]

InvalidCharacter(pos, c) ==
    [tag |-> "Err", kind |-> "InvalidCharacter", pos |-> pos, invalid |-> c]

InvalidCharacterRange(pos, c) ==
    [tag |-> "Err", kind |-> "InvalidCharacterRange", pos |-> pos, invalid |-> c]

\* The stars from index i on: star_run after the inner while loop.
RECURSIVE StarRun(_, _)
StarRun(g, i) ==
    IF i <= Len(g) /\ g[i] = "*" THEN 1 + StarRun(g, i + 1) ELSE 0

\* Variant of IsParentDirectory that does not ask for the start of the
\* string or a slash before the dot.
IsParentDirectoryAnywhere(g, i, start_or_slash) ==
    i + 1 <= Len(g) /\ g[i + 1] = "."

\* start_or_slash && matches!(chars.peek(), Some((_, '.'))), at the dot of
\* index i.
IsParentDirectory(g, i, start_or_slash) ==
    start_or_slash /\ i + 1 <= Len(g) /\ g[i + 1] = "."

\* Variant of StarsRefused that refuses two stars also before a slash.
StarsRefusedBeforeSlash(g, i, star_run) ==
    \/ star_run >= 3
    \/ star_run = 2 /\ i + 2 <= Len(g)

\* The run of star_run stars at index i is refused: three or more, or two
\* with a next character that is not the slash.
StarsRefused(g, i, star_run) ==
    \/ star_run >= 3
    \/ star_run = 2 /\ i + 2 <= Len(g) /\ g[i + 2] # "/"

\* The while loop of check_pep639_glob from index i (counted from 1) with
\* start_or_slash sos, and the for loop over a character range from i.
RECURSIVE Scan(_, _, _), ScanRange(_, _)
Scan(g, i, sos) ==
    IF i > Len(g) THEN GlobOk
    ELSE LET c == g[i]
             pos == i - 1
         IN  IF c = "*"
             THEN IF StarsRefused(g, i, StarRun(g, i)) THEN TooManyStars(pos)
                  ELSE Scan(g, i + StarRun(g, i), FALSE)
             ELSE IF IsAlphanumeric(c) \/ c \in {"_", "-", "?"}
             THEN Scan(g, i + 1, FALSE)
             ELSE IF c = "."
             THEN IF IsParentDirectory(g, i, sos) THEN ParentDirectory(pos)
                  ELSE Scan(g, i + 1, FALSE)
             ELSE IF c = "/" THEN Scan(g, i + 1, TRUE)
             ELSE IF c = "[" THEN ScanRange(g, i + 1)
             ELSE IF c = "\\" THEN InvalidBackslash(pos)
             ELSE InvalidCharacter(pos, c)

ScanRange(g, i) ==
    IF i > Len(g) THEN Scan(g, i, FALSE)
    ELSE IF IsAlphanumeric(g[i]) \/ g[i] \in {"_", "-", "."} THEN ScanRange(g, i + 1)
    ELSE IF g[i] = "]" THEN Scan(g, i + 1, FALSE)
    ELSE InvalidCharacterRange(i - 1, g[i])

check_pep639_glob(g) == Scan(g, 1, TRUE)

GlobInit ==
    /\ project_name = <<>>
    /\ optional_dependencies = <<>>
    /\ dependency_groups = <<>>
    /\ resolved = ResolvedDependencies(<<>>, <<>>)
    /\ parents = <<>>
    /\ stack = <<>>
    /\ idx = 1
    /\ result = Running
    /\ walks = <<>>
    /\ hits = <<>>
    /\ previous = NoCall
    /\ glob \in Globs
    /\ glob_result = NotChecked

\* One call of check_pep639_glob.
CheckGlob ==
    /\ glob_result = NotChecked
    /\ glob_result' = check_pep639_glob(glob)
    /\ UNCHANGED <<project_name, optional_dependencies, dependency_groups, resolved,
                   parents, stack, idx, result, walks, hits, previous, glob>>

GlobNext == CheckGlob

GlobSpec == GlobInit /\ [][GlobNext]_vars

----------------------------------------------------------------------------
(* The messages of the errors: Display of ResolveErrorKind, Cycle and Item. *)
(* A text is the sequence of its characters; "backtick" is the grave       *)
(* accent, which a string of this language cannot hold.                    *)

FailedToFindOptional == <<"F", "a", "i", "l", "e", "d", " ", "t", "o", " ",
                          "f", "i", "n", "d", " ", "o", "p", "t", "i", "o",
                          "n", "a", "l", " ", "d", "e", "p", "e", "n", "d",
                          "e", "n", "c", "y", " ", "backtick">>

FailedToFindGroup == <<"F", "a", "i", "l", "e", "d", " ", "t", "o", " ", "f",
                       "i", "n", "d", " ", "d", "e", "p", "e", "n", "d", "e",
                       "n", "c", "y", " ", "g", "r", "o", "u", "p", " ", "backtick">>

IncludedBy == <<"backtick", " ", "i", "n", "c", "l", "u", "d", "e", "d", " ", "b",
                "y", " ">>

CyclesAreNotSupported == <<"C", "y", "c", "l", "e", "s", " ", "a", "r", "e",
                           " ", "n", "o", "t", " ", "s", "u", "p", "p", "o",
                           "r", "t", "e", "d", ":", " ">>

Arrow == <<" ", "-", ">", " ">>

ExtraTag == <<"e", "x", "t", "r", "a", ":">>

GroupTag == <<"g", "r", "o", "u", "p", ":">>

\* Variant of ItemToString that writes the bare name.
ItemToStringBare(item) == item.name

\* Display for Item.
ItemToString(item) ==
    (IF item.tag = "extra" THEN ExtraTag ELSE GroupTag) \o item.name

RECURSIVE RestToString(_)
RestToString(rest) ==
    IF rest = <<>> THEN <<>>
    ELSE Arrow \o ItemToString(Head(rest)) \o RestToString(Tail(rest))

\* Variant of CycleToString that does not write the first item again.
CycleToStringOpen(cycle) ==
    IF cycle = <<>> THEN <<>>
    ELSE ItemToString(Head(cycle)) \o RestToString(Tail(cycle))

\* Display for Cycle: the first item, " -> " and each of the rest, " -> "
\* and the first item again; nothing for no item.
CycleToString(cycle) ==
    IF cycle = <<>> THEN <<>>
    ELSE ItemToString(Head(cycle)) \o RestToString(Tail(cycle))
         \o Arrow \o ItemToString(Head(cycle))

\* Display for ResolveErrorKind.
ErrorToString(err) ==
    IF err.kind = "OptionalDependencyNotFound"
    THEN FailedToFindOptional \o err.name \o IncludedBy \o ItemToString(err.included_by)
    ELSE IF err.kind = "DependencyGroupNotFound"
    THEN FailedToFindGroup \o err.name \o IncludedBy \o ItemToString(err.included_by)
    ELSE CyclesAreNotSupported \o CycleToString(err.cycle)

----------------------------------------------------------------------------
(* The reference graph of the input tables and the reference expansion. *)

Returned == result.tag # "Running"

IsOk == result.tag = "Ok"

IsNotFound ==
    /\ result.tag = "Err"
    /\ result.kind \in {"OptionalDependencyNotFound", "DependencyGroupNotFound"}

IsCycle == result.tag = "Err" /\ result.kind = "DependencyGroupCycle"

\* The extras a requirement refers to: those of a self-reference.
ExtrasOfRequirement(r) == IF IsSelfReference(r) THEN Range(r.extras) ELSE {}

\* The extras the body of an optional dependency refers to.
ExtrasOfBody(body) == UNION {ExtrasOfRequirement(body[i]) : i \in 1..Len(body)}

\* The extras and the groups the body of a dependency group refers to.
ExtrasOfGroupBody(body) ==
    UNION {ExtrasOfRequirement(body[i].spec) :
              i \in {k \in 1..Len(body) : body[k].t = "String"}}

IncludesOfGroupBody(body) ==
    {body[i].include_group : i \in {k \in 1..Len(body) : body[k].t = "Table"}}

\* <<i, k>>: the body of the i-th optional dependency refers to an extra
\* that selects the k-th.
ExtraEdges ==
    {e \in (1..Len(optional_dependencies)) \X (1..Len(optional_dependencies)) :
        \E x \in ExtrasOfBody(optional_dependencies[e[1]].val) :
            FindExtra(optional_dependencies, x) = e[2]}

\* <<i, k>>: the body of the i-th dependency group includes the k-th.
GroupEdges ==
    {e \in (1..Len(dependency_groups)) \X (1..Len(dependency_groups)) :
        \E g \in IncludesOfGroupBody(dependency_groups[e[1]].val) :
            FindGroup(dependency_groups, g) = e[2]}

Successors(edges, nodes) == {e[2] : e \in {d \in edges : d[1] \in nodes}}

RECURSIVE ReachedIn(_, _, _)
ReachedIn(edges, nodes, steps) ==
    IF steps = 0 THEN {}
    ELSE Successors(edges, nodes) \cup ReachedIn(edges, Successors(edges, nodes), steps - 1)

HasCycle(edges, n) == \E i \in 1..n : i \in ReachedIn(edges, {i}, n)

Cyclic ==
    \/ HasCycle(ExtraEdges, Len(optional_dependencies))
    \/ HasCycle(GroupEdges, Len(dependency_groups))

\* Every extra and every group a body refers to is in its table.
AllDefined ==
    /\ \A i \in 1..Len(optional_dependencies) :
          \A x \in ExtrasOfBody(optional_dependencies[i].val) :
              FindExtra(optional_dependencies, x) # 0
    /\ \A i \in 1..Len(dependency_groups) :
          /\ \A x \in ExtrasOfGroupBody(dependency_groups[i].val) :
                FindExtra(optional_dependencies, x) # 0
          /\ \A g \in IncludesOfGroupBody(dependency_groups[i].val) :
                g \in Keys(dependency_groups)

\* No two keys of the optional dependencies have the same normalized form.
DistinctNormalized ==
    \A i, k \in 1..Len(optional_dependencies) :
        normalize_name(optional_dependencies[i].key)
            = normalize_name(optional_dependencies[k].key) => i = k

\* The reference expansion E: literal requirements verbatim, E(extra) for
\* each extra of a self-reference, E(h) for each included group h.  depth
\* bounds the unfolding; an acyclic pair of tables needs no more than the
\* number of its keys.
RECURSIVE ExpandExtra(_, _), ExpandExtras(_, _), ExpandBody(_, _)
ExpandExtra(x, depth) ==
    IF depth = 0 \/ FindExtra(optional_dependencies, x) = 0 THEN <<>>
    ELSE ExpandBody(optional_dependencies[FindExtra(optional_dependencies, x)].val,
                    depth - 1)

ExpandExtras(xs, depth) ==
    IF xs = <<>> THEN <<>>
    ELSE ExpandExtra(Head(xs), depth) \o ExpandExtras(Tail(xs), depth)

ExpandBody(body, depth) ==
    IF body = <<>> THEN <<>>
    ELSE (IF IsSelfReference(Head(body))
          THEN ExpandExtras(Head(body).extras, depth)
          ELSE <<Head(body)>>)
         \o ExpandBody(Tail(body), depth)

RECURSIVE ExpandGroupBody(_, _)
ExpandGroupBody(body, depth) ==
    IF body = <<>> THEN <<>>
    ELSE (IF Head(body).t = "Table"
          THEN (IF depth = 0 \/ FindGroup(dependency_groups, Head(body).include_group) = 0
                THEN <<>>
                ELSE ExpandGroupBody(
                         dependency_groups[FindGroup(dependency_groups,
                                                     Head(body).include_group)].val,
                         depth - 1))
          ELSE ExpandBody(<<Head(body).spec>>, Len(optional_dependencies) + 1))
         \o ExpandGroupBody(Tail(body), depth)

Depth == Len(optional_dependencies) + Len(dependency_groups) + 1

----------------------------------------------------------------------------
(* Claims. *)

C2_CycleIsError == (Returned /\ Cyclic) => result.tag = "Err"

\* C2 witness: resolve() returned the cycle error on tables with a cycle.
C2_Witness == Cyclic /\ IsCycle

\* The items a cycle error displays, in order: Display for Cycle writes the
\* first item, the rest, and the first item again.
CycleDisplay(cycle) == IF cycle = <<>> THEN <<>> ELSE Append(cycle, cycle[1])

ItemOfFrame(f) == [tag |-> f.fn, name |-> f.name]

\* The table key an item of the ancestor stack stands for, as an index: the
\* key its call found.
KeyIndexOfItem(item) ==
    IF item.tag = "extra" THEN FindExtra(optional_dependencies, item.name)
    ELSE FindGroup(dependency_groups, item.name)

\* The body of the key of item a refers directly to item b.
DirectReference(a, b) ==
    LET i == KeyIndexOfItem(a)
    IN  /\ i # 0
        /\ IF a.tag = "extra"
           THEN b.tag = "extra" /\ b.name \in ExtrasOfBody(optional_dependencies[i].val)
           ELSE \/ b.tag = "extra"
                   /\ b.name \in ExtrasOfGroupBody(dependency_groups[i].val)
                \/ b.tag = "group"
                   /\ b.name \in IncludesOfGroupBody(dependency_groups[i].val)

\* C3: the cycle reported on revisiting group g is the ancestor stack in
\* discovery order followed by g, so that every adjacent pair of the
\* reported path is a direct reference of the tables.
C3_CyclePathEndsWithRevisited ==
    IsCycle =>
        LET path == CycleDisplay(result.cycle)
        IN  /\ path = Append(parents, ItemOfFrame(Top))
            /\ \A i \in 1..(Len(path) - 1) : DirectReference(path[i], path[i + 1])

\* The group whose entry made the innermost call, and the name that entry
\* carries for it.
Caller == stack[Len(stack) - 1]

NameInCallerEntry ==
    IF Top.fn = "group" THEN Caller.body[Caller.i - 1].include_group
    ELSE RequirementOf(Caller.body[Caller.i]).extras[Caller.j - 1]

\* C4: a not-found error names the table that was searched, carries the
\* missing name as the referring entry carries it, and names as referrer the
\* group on top of the ancestor stack, which is the group whose entry named
\* the missing one.
C4_NotFoundNamesReferrer ==
    IsNotFound =>
        /\ Len(stack) >= 2
        /\ result.kind = (IF Top.fn = "extra" THEN "OptionalDependencyNotFound"
                          ELSE "DependencyGroupNotFound")
        /\ KeyIndexOfItem(ItemOfFrame(Top)) = 0
        /\ result.name = NameInCallerEntry
        /\ result.included_by = parents[Len(parents)]
        /\ result.included_by = ItemOfFrame(Caller)
        /\ Caller.st = "walk"

\* C4 witness: the missing extra is the second reference of a dependency
\* group whose first reference was resolved and popped.
C4_Witness ==
    /\ IsNotFound
    /\ result.kind = "OptionalDependencyNotFound"
    /\ Len(stack) = 2
    /\ Caller.fn = "group"
    /\ Caller.i = 2
    /\ Len(walks) = 3
    /\ result.included_by = Group(Caller.name)

\* C5: the body of each table key is walked at most once during one
\* resolve(), whatever the spelling of the references to it; stated of the
\* calls that return Ok on tables with no two keys of one normalized form.
C5_BodyWalkedOnce ==
    (IsOk /\ DistinctNormalized) =>
        \A i, k \in 1..Len(walks) : walks[i] = walks[k] => i = k

IsLiteralBody(body) ==
    \A i \in 1..Len(body) :
        /\ "t" \in DOMAIN body[i] => body[i].t = "String"
        /\ ~IsSelfReference(RequirementOf(body[i]))

LiteralsOf(body) == [i \in 1..Len(body) |-> RequirementOf(body[i])]

\* C6: a table key whose entries are literal requirements, with no
\* self-reference and no include, resolves to exactly those requirements in
\* that order, whatever the other keys of the table.
C6_LiteralBodyVerbatim ==
    IsOk =>
        /\ \A i \in 1..Len(optional_dependencies) :
              IsLiteralBody(optional_dependencies[i].val) =>
                  Get(result.value.optional_dependencies, optional_dependencies[i].key)
                      = optional_dependencies[i].val
        /\ \A i \in 1..Len(dependency_groups) :
              IsLiteralBody(dependency_groups[i].val) =>
                  Get(result.value.dependency_groups, dependency_groups[i].key)
                      = LiteralsOf(dependency_groups[i].val)

\* C7: after a successful resolve() every key of the resolved
\* optional_dependencies is a key of the source optional-dependencies table.
C7_ResolvedExtrasAreSourceKeys ==
    IsOk => Keys(result.value.optional_dependencies) \subseteq Keys(optional_dependencies)

\* C8: a self-reference extra e selects the optional-dependencies key k
\* exactly when normalize(e) = normalize(k), and what e expands to is the
\* list of that key's own resolution.
C8_ExtraSelectsByNormalizedName ==
    /\ \A n \in 2..Len(stack) :
          (stack[n].fn = "extra" /\ stack[n].st = "walk") =>
              \A i \in 1..Len(optional_dependencies) :
                  (optional_dependencies[i].key = stack[n].key)
                      <=> (normalize_name(optional_dependencies[i].key)
                              = normalize_name(stack[n].name))
    /\ IsOk =>
          \A n \in 1..Len(result.value.optional_dependencies) :
              \A i \in 1..Len(optional_dependencies) :
                  (normalize_name(optional_dependencies[i].key)
                      = normalize_name(result.value.optional_dependencies[n].key))
                  => result.value.optional_dependencies[n].val
                        = Get(result.value.optional_dependencies,
                              optional_dependencies[i].key)

\* C9: an include-group entry selects a dependency group by exact string
\* only: a name that is no key of the table, also one that differs from a
\* key by case or separators alone, is never walked nor answered from the
\* memo, and ends resolve() with the dependency-group-not-found error.
C9_IncludeMatchesExactly ==
    /\ \A n \in 1..Len(stack) :
          (stack[n].fn = "group" /\ stack[n].name \notin Keys(dependency_groups)) =>
              /\ stack[n].st = "enter"
              /\ n = Len(stack)
              /\ Returned =>
                    /\ IsNotFound
                    /\ result.kind = "DependencyGroupNotFound"
                    /\ result.name = stack[n].name
    /\ \A n \in 1..Len(stack) :
          (stack[n].fn = "group" /\ stack[n].st = "walk") => stack[n].key = stack[n].name
    /\ \A n \in 1..Len(hits) :
          hits[n].item.tag = "group" => hits[n].item.name \in Keys(dependency_groups)

\* C9 witness: the include of "D-v" fails while "d_v", of the same
\* normalized form, is a key of the table.
C9_Witness ==
    /\ IsNotFound
    /\ result.kind = "DependencyGroupNotFound"
    /\ result.name = <<"D", "-", "v">>
    /\ <<"d", "_", "v">> \in Keys(dependency_groups)
    /\ normalize_name(<<"d", "_", "v">>) = normalize_name(result.name)

\* C10: every key of the resolved dependency_groups is a key of the source
\* dependency-groups table, also when a group expands an extra through a
\* self-reference.
C10_ResolvedGroupsAreSourceKeys ==
    /\ Keys(resolved.dependency_groups) \subseteq Keys(dependency_groups)
    /\ IsOk => Keys(result.value.dependency_groups) \subseteq Keys(dependency_groups)

\* C10 witness: resolve() returned Ok after a dependency group expanded an
\* extra whose name is no dependency group.
C10_Witness ==
    /\ IsOk
    /\ \E i \in 1..Len(dependency_groups) :
          \E x \in ExtrasOfGroupBody(dependency_groups[i].val) :
              /\ x \notin Keys(dependency_groups)
              /\ ContainsKey(result.value.optional_dependencies, x)
              /\ Get(result.value.optional_dependencies, x) # <<>>
              /\ ~ContainsKey(result.value.dependency_groups, x)

\* The names that are keys of both tables.
SharedKeys == Keys(optional_dependencies) \cap Keys(dependency_groups)

\* C11: when a name X is a key of both tables, the two entries are resolved
\* independently: on tables that are acyclic and fully defined resolve()
\* returns Ok, the optional dependency X is the expansion of the
\* optional-dependencies entry and the dependency group X the expansion of
\* the dependency-groups entry; and a cycle is reported only when the
\* reference graph of one table has one, so not for the group X that refers
\* to the extra X.
C11_SameNameResolvedIndependently ==
    (Returned /\ SharedKeys # {}) =>
        /\ (~Cyclic /\ AllDefined /\ DistinctNormalized) =>
              /\ IsOk
              /\ \A X \in SharedKeys :
                    /\ ContainsKey(result.value.optional_dependencies, X)
                    /\ ContainsKey(result.value.dependency_groups, X)
                    /\ Get(result.value.optional_dependencies, X)
                          = ExpandBody(Get(optional_dependencies, X), Depth)
                    /\ Get(result.value.dependency_groups, X)
                          = ExpandGroupBody(Get(dependency_groups, X), Depth)
        /\ IsCycle => Cyclic

\* C11 witness: resolve() returned Ok where the dependency group "a" is a
\* self-reference to the extra "a", and the group has the list of the extra.
C11_Witness ==
    /\ IsOk
    /\ <<"a">> \in SharedKeys
    /\ Get(optional_dependencies, <<"a">>) # <<>>
    /\ ExtrasOfGroupBody(Get(dependency_groups, <<"a">>)) = {<<"a">>}
    /\ Get(result.value.dependency_groups, <<"a">>)
          = Get(optional_dependencies, <<"a">>)
    /\ Get(result.value.optional_dependencies, <<"a">>)
          = Get(optional_dependencies, <<"a">>)

\* C12 as stated: a name that is a key of both tables makes resolve() fail
\* with NameCollision(name) before any body is walked.
C12_NameCollisionReported ==
    (Returned /\ SharedKeys # {}) =>
        /\ result.tag = "Err"
        /\ result.kind = "NameCollision"
        /\ result.name \in SharedKeys
        /\ walks = <<>>

\* C12, amended: a name that is a key of both tables is no error.  With
\* such a name resolve() fails only with a not-found error, on tables with
\* an undefined reference, or with the cycle error, on tables with a cycle;
\* otherwise it returns Ok and both maps have the name.
C12_SharedNameIsNoError ==
    (Returned /\ SharedKeys # {}) =>
        /\ result.tag = "Err" =>
              \/ IsNotFound /\ ~AllDefined
              \/ IsCycle /\ Cyclic
        /\ IsOk =>
              \A X \in SharedKeys :
                  /\ ContainsKey(result.value.optional_dependencies, X)
                  /\ ContainsKey(result.value.dependency_groups, X)

\* C12 witness: resolve() returned Ok on tables that both have the key "a",
\* each with a list of its own that is not empty.
C12_Witness ==
    /\ IsOk
    /\ <<"a">> \in SharedKeys
    /\ ExtrasOfGroupBody(Get(dependency_groups, <<"a">>)) = {}
    /\ Get(result.value.optional_dependencies, <<"a">>) # <<>>
    /\ Get(result.value.dependency_groups, <<"a">>) # <<>>

ListsOf(m) == {m[i].val : i \in 1..Len(m)}

\* A requirement, not a specifier of a dependency group.
IsRequirement(r) == DOMAIN r = {"name", "extras", "constraint"}

\* C14: with a project name, no list of either map that resolve() returns
\* has an include marker or a requirement on the project itself: every
\* element is a requirement on another package.
C14_OnlyExternalRequirements ==
    (IsOk /\ project_name # <<>>) =>
        \A list \in ListsOf(result.value.optional_dependencies)
                        \cup ListsOf(result.value.dependency_groups) :
            \A i \in 1..Len(list) :
                /\ IsRequirement(list[i])
                /\ <<list[i].name>> # project_name

\* C14 witness: resolve() returned Ok with a list that is not empty for a
\* key whose body has a requirement on the project itself.
C14_Witness ==
    /\ IsOk
    /\ project_name # <<>>
    /\ \/ \E i \in 1..Len(optional_dependencies) :
              /\ \E n \in 1..Len(optional_dependencies[i].val) :
                    <<optional_dependencies[i].val[n].name>> = project_name
              /\ Get(result.value.optional_dependencies, optional_dependencies[i].key) # <<>>
       \/ \E i \in 1..Len(dependency_groups) :
              /\ \E n \in 1..Len(dependency_groups[i].val) :
                    /\ dependency_groups[i].val[n].t = "String"
                    /\ <<dependency_groups[i].val[n].spec.name>> = project_name
              /\ Get(result.value.dependency_groups, dependency_groups[i].key) # <<>>

\* The body of an optional dependency refers to an extra that no key has.
OptionalHasMissing ==
    \E i \in 1..Len(optional_dependencies) :
        \E x \in ExtrasOfBody(optional_dependencies[i].val) :
            FindExtra(optional_dependencies, x) = 0

C16_FailsAtomically ==
    /\ result.tag = "Err" =>
          \/ IsNotFound /\ DOMAIN result = {"tag", "kind", "name", "included_by"}
          \/ IsCycle /\ DOMAIN result = {"tag", "kind", "cycle"}
    /\ IsOk =>
          /\ stack = <<>>
          /\ idx > Len(optional_dependencies) + Len(dependency_groups)
          /\ \A k \in Keys(optional_dependencies) :
                ContainsKey(result.value.optional_dependencies, k)
          /\ \A k \in Keys(dependency_groups) :
                ContainsKey(result.value.dependency_groups, k)

\* C16 witness: resolve() returned an error after a key was resolved to a
\* list that is not empty.
C16_Witness ==
    /\ result.tag = "Err"
    /\ \E list \in ListsOf(resolved.optional_dependencies)
                        \cup ListsOf(resolved.dependency_groups) : list # <<>>

\* A lookup of the innermost call is about to fail: the name is neither in
\* the memo nor in the table.
LookupFails ==
    /\ result = Running
    /\ stack # <<>>
    /\ Top.st = "enter"
    /\ IF Top.fn = "extra"
       THEN /\ Memo(resolved.optional_dependencies, Top.name) = <<>>
            /\ FindExtra(optional_dependencies, Top.name) = 0
       ELSE /\ Memo(resolved.dependency_groups, Top.name) = <<>>
            /\ FindGroup(dependency_groups, Top.name) = 0

\* C17: resolve() does not panic: a call whose lookup fails has a referrer
\* on the ancestor stack, so neither expect is reached with an empty stack;
\* the call for a key of a table finds the key.
C17_NeverPanics ==
    /\ result.tag # "Panic"
    /\ LookupFails => (parents # <<>> /\ Len(stack) >= 2)
    /\ IsNotFound => parents # <<>>

\* C17 witness: the lookup of an extra that an optional dependency refers
\* to failed, with that optional dependency on the ancestor stack.
C17_Witness ==
    /\ IsNotFound
    /\ result.kind = "OptionalDependencyNotFound"
    /\ Len(stack) = 2
    /\ Caller.fn = "extra"
    /\ parents = <<Extra(Caller.name)>>

\* The names under which an extra or a group can be asked for: the keys of
\* its table and the names the entries refer to.
ExtraSpellings ==
    Keys(optional_dependencies)
    \cup UNION {ExtrasOfBody(optional_dependencies[i].val) :
                   i \in 1..Len(optional_dependencies)}
    \cup UNION {ExtrasOfGroupBody(dependency_groups[i].val) :
                   i \in 1..Len(dependency_groups)}

GroupSpellings ==
    Keys(dependency_groups)
    \cup UNION {IncludesOfGroupBody(dependency_groups[i].val) :
                   i \in 1..Len(dependency_groups)}

\* No more bodies are walked, and no more calls are open, than there are
\* names to ask for.
WorkBounded ==
    /\ Len(walks) <= Cardinality(ExtraSpellings) + Cardinality(GroupSpellings)
    /\ Len(stack) <= Cardinality(ExtraSpellings) + Cardinality(GroupSpellings) + 1

\* C18: for every pair of tables, with or without a cycle, resolve()
\* terminates: the work is bounded by the names of the tables, and the call
\* comes to return the two maps or an error.
C18_Terminates == []WorkBounded /\ <>Returned

\* C18 witness: resolve() returned on tables with a cycle after it walked
\* two bodies.
C18_Witness == Returned /\ Cyclic /\ Len(walks) >= 2

\* C19: the ancestor stack is never longer than the number of keys of the
\* two tables, and no two of its items stand for the same key: a group is
\* entered at most once.
C19_DepthBoundedByKeys ==
    /\ Len(parents) <= Len(optional_dependencies) + Len(dependency_groups)
    /\ \A i, k \in 1..Len(parents) :
          (parents[i].tag = parents[k].tag
             /\ KeyIndexOfItem(parents[i]) = KeyIndexOfItem(parents[k])) => i = k

\* The innermost call is at its end: the next step is its insert.
AtFinish ==
    /\ result = Running
    /\ stack # <<>>
    /\ Top.st = "walk"
    /\ Top.i > Len(Top.body)

\* m2 is m, or m with one new key after the others.
GrownByAtMostOne(m, m2) ==
    /\ Len(m) <= Len(m2)
    /\ Len(m2) <= Len(m) + 1
    /\ SubSeq(m2, 1, Len(m)) = m
    /\ \A i \in 1..Len(m) : m2[Len(m2)].key = m[i].key => Len(m2) = Len(m)

\* A step leaves every key of the resolved maps and its list as they are;
\* the insert at the end of a call adds a key that was not there.
WriteOnceStep ==
    /\ GrownByAtMostOne(resolved.optional_dependencies, resolved'.optional_dependencies)
    /\ GrownByAtMostOne(resolved.dependency_groups, resolved'.dependency_groups)
    /\ (AtFinish /\ stack' # stack) =>
          Len(resolved'.optional_dependencies) + Len(resolved'.dependency_groups)
              = Len(resolved.optional_dependencies) + Len(resolved.dependency_groups) + 1

\* What every answer of the memo was is the list the map has for the name.
HitsAreStored ==
    \A n \in 1..Len(hits) :
        LET m == IF hits[n].item.tag = "extra" THEN resolved.optional_dependencies
                 ELSE resolved.dependency_groups
        IN  /\ ContainsKey(m, hits[n].item.name)
            /\ hits[n].val = Get(m, hits[n].item.name)

\* C20: the resolved maps are write-once: no step inserts a key that is in
\* the map or changes the list of one, and every call that is answered
\* from the map gets the list the map has for the name from then on.
C20_ResolvedIsWriteOnce == [][WriteOnceStep]_vars /\ []HitsAreStored

\* C20 witness: an entry was answered from the map with a list that is not
\* empty, and resolve() returned Ok.
C20_Witness ==
    /\ IsOk
    /\ \E n \in 1..Len(hits) : hits[n].val # <<>> /\ hits[n].on_stack # <<>>

FailedToFind == <<"F", "a", "i", "l", "e", "d", " ", "t", "o", " ", "f", "i",
                  "n", "d", " ">>

OptionalDependencyGroup == <<"o", "p", "t", "i", "o", "n", "a", "l", " ",
                             "d", "e", "p", "e", "n", "d", "e", "n", "c",
                             "y", " ", "g", "r", "o", "u", "p">>

DependencyGroup == <<"d", "e", "p", "e", "n", "d", "e", "n", "c", "y", " ",
                     "g", "r", "o", "u", "p">>

OptionalDependency == <<"o", "p", "t", "i", "o", "n", "a", "l", " ", "d",
                        "e", "p", "e", "n", "d", "e", "n", "c", "y">>

Backtick == <<"backtick">>

IncludedByText == <<" ", "i", "n", "c", "l", "u", "d", "e", "d", " ", "b",
                    "y", " ">>

Space == <<" ">>

RECURSIVE JoinItems(_)
JoinItems(texts) ==
    IF texts = <<>> THEN <<>>
    ELSE IF Len(texts) = 1 THEN texts[1]
    ELSE texts[1] \o <<" ", "-", ">", " ">> \o JoinItems(Tail(texts))

\* An item as the claim renders it: the tag of its table, a colon, the name.
TaggedName(table, name) ==
    (IF table = "extra" THEN <<"e", "x", "t", "r", "a", ":">>
     ELSE <<"g", "r", "o", "u", "p", ":">>) \o name

\* C23: in the text of every error each item, the referrer of a missing
\* reference and each member of a cycle, is written with the tag of the
\* table its call looked in, extra:name or group:name; the text of a cycle
\* is "Cycles are not supported: " and the items of the displayed path
\* joined by " -> ".
C23_ItemsRenderedWithTableTag ==
    /\ IsNotFound =>
          LET text == ErrorToString(result)
              referrer == TaggedName(Caller.fn, Caller.name)
          IN  /\ Len(text) >= Len(referrer)
              /\ SubSeq(text, Len(text) - Len(referrer) + 1, Len(text)) = referrer
    /\ IsCycle =>
          LET path == Append(result.cycle, result.cycle[1])
          IN  /\ Len(result.cycle) <= Len(stack)
              /\ \A k \in 1..Len(result.cycle) :
                    /\ result.cycle[k].tag = stack[k].fn
                    /\ result.cycle[k].name = stack[k].name
              /\ ErrorToString(result)
                    = CyclesAreNotSupported
                      \o JoinItems([k \in 1..Len(path) |->
                                      TaggedName(path[k].tag, path[k].name)])

\* C23 witness: a cycle of two optional dependencies was reported, in a
\* text of three items.
C23_Witness ==
    /\ IsCycle
    /\ Len(result.cycle) = 2
    /\ \A k \in 1..2 : result.cycle[k].tag = "extra"
    /\ result.cycle[1].name # result.cycle[2].name

----------------------------------------------------------------------------
(* What a glob contains, read off the string and not off the scan.          *)

Checked == glob_result # NotChecked

\* The position p (counted from 1) lies inside a character range: a bracket
\* that opens a range stands before it and no closing bracket in between.
RECURSIVE InsideRange(_, _)
InsideRange(g, p) ==
    \E q \in 1..(p - 1) :
        /\ g[q] = "["
        /\ ~InsideRange(g, q)
        /\ \A r \in (q + 1)..(p - 1) : g[r] # "]"

\* A run of stars begins at p, and its length.
StarRunStartsAt(g, p) == g[p] = "*" /\ (p = 1 \/ g[p - 1] # "*")

StarsFrom(g, p) == Cardinality({n \in p..Len(g) : \A r \in p..n : g[r] = "*"})

\* Three or more stars, or exactly two followed by a character that is not
\* the slash.
TooLongRunAt(g, p) ==
    /\ StarRunStartsAt(g, p)
    /\ \/ StarsFrom(g, p) >= 3
       \/ StarsFrom(g, p) = 2 /\ p + 2 <= Len(g) /\ g[p + 2] # "/"

\* Two dots that begin at the start of the string or right after a slash.
ParentDirAt(g, p) ==
    /\ p \in 1..Len(g)
    /\ g[p] = "."
    /\ p + 1 <= Len(g) /\ g[p + 1] = "."
    /\ p = 1 \/ g[p - 1] = "/"

AllowedOutsideRange ==
    LowerCaseLetters \cup UpperCaseLetters \cup Digits
        \cup {"_", "-", "?", ".", "/", "*", "["}

AllowedInsideRange ==
    LowerCaseLetters \cup UpperCaseLetters \cup Digits \cup {"_", "-", ".", "]"}

ViolationAt(g, p) ==
    IF InsideRange(g, p) THEN g[p] \notin AllowedInsideRange
    ELSE \/ TooLongRunAt(g, p)
         \/ ParentDirAt(g, p)
         \/ g[p] \notin AllowedOutsideRange

FirstViolationAt(g, p) ==
    /\ p \in 1..Len(g)
    /\ ViolationAt(g, p)
    /\ \A q \in 1..(p - 1) : ~ViolationAt(g, q)

IsParentDirectoryError ==
    Checked /\ glob_result.tag = "Err" /\ glob_result.kind = "ParentDirectory"

IsTooManyStarsError ==
    Checked /\ glob_result.tag = "Err" /\ glob_result.kind = "TooManyStars"

\* C24: check_pep639_glob returns ParentDirectory, with pos the index of the
\* first dot, exactly when the first violation of the glob is two dots at
\* the start of the string or right after a slash; a glob of letters and
\* dots that does not begin with two dots is accepted.
C24_ParentDirectoryIffFirstViolation ==
    Checked =>
        /\ IsParentDirectoryError => glob_result.pos + 1 \in 1..Len(glob)
        /\ \A p \in 1..Len(glob) :
               glob_result = ParentDirectory(p - 1)
                   <=> (FirstViolationAt(glob, p) /\ ~InsideRange(glob, p)
                            /\ ParentDirAt(glob, p))
        /\ ((\A p \in 1..Len(glob) : glob[p] \in {"a", "."}) /\ ~ParentDirAt(glob, 1))
               => glob_result = GlobOk

C24_Witness ==
    /\ glob = <<"a", "/", ".", ".">>
    /\ glob_result = ParentDirectory(2)

\* C25 as stated: every too long run of stars is reported, at its first
\* star, whatever stands before it.
C25_EveryRunReported ==
    Checked =>
        \A p \in 1..Len(glob) :
            TooLongRunAt(glob, p) => glob_result = TooManyStars(p - 1)

\* C25: check_pep639_glob returns TooManyStars, with pos the index of the
\* first star of the run, exactly when the first violation of the glob is a
\* run of three or more stars, or of two stars followed by a character other
\* than the slash, outside a character range; a glob of letters, slashes and
\* stars without such a run is accepted.
C25_TooManyStarsIffFirstViolation ==
    Checked =>
        /\ IsTooManyStarsError => glob_result.pos + 1 \in 1..Len(glob)
        /\ \A p \in 1..Len(glob) :
               glob_result = TooManyStars(p - 1)
                   <=> (FirstViolationAt(glob, p) /\ ~InsideRange(glob, p)
                            /\ TooLongRunAt(glob, p))
        /\ ((\A p \in 1..Len(glob) :
                glob[p] \in {"a", "/", "*"} /\ ~TooLongRunAt(glob, p))
               => glob_result = GlobOk)

C25_Witness ==
    /\ glob = <<"a", "*", "*", "a">>
    /\ glob_result = TooManyStars(1)

\* The rules the documentation of parse_pep639_glob quotes: the characters
\* are alphanumeric, _ - . * ? / or belong to a character range; a range is
\* closed and contains verbatim characters only; no leading slash; no path
\* segment that is the parent directory indicator.
Verbatim == LowerCaseLetters \cup UpperCaseLetters \cup Digits \cup {"_", "-", "."}

RangeClosedAt(g, p) == \E q \in (p + 1)..Len(g) : g[q] = "]"

ParentSegmentAt(g, p) == ParentDirAt(g, p) /\ (p + 2 > Len(g) \/ g[p + 2] = "/")

ValidUnderPep639(g) ==
    /\ g = <<>> \/ g[1] # "/"
    /\ \A p \in 1..Len(g) :
           /\ ~ParentSegmentAt(g, p)
           /\ IF InsideRange(g, p) THEN g[p] \in Verbatim \cup {"]"}
              ELSE /\ g[p] \in Verbatim \cup {"*", "?", "/", "["}
                   /\ g[p] = "[" => RangeClosedAt(g, p)

\* C26: check_pep639_glob returns Ok only for globs that are valid under
\* the rules quoted in its documentation, and a glob whose first character
\* is the slash is rejected with an error.
C26_AcceptsOnlyValidGlobs ==
    Checked =>
        /\ glob_result = GlobOk => ValidUnderPep639(glob)
        /\ (glob # <<>> /\ glob[1] = "/") => glob_result.tag = "Err"

\* C30: check_pep639_glob returns Ok only for globs in which every opening
\* bracket is closed by a later closing bracket.
C30_OkOnlyWithClosedRanges ==
    (Checked /\ glob_result = GlobOk) =>
        \A p \in 1..Len(glob) : glob[p] = "[" => RangeClosedAt(glob, p)

\* C27: without a project name, the resolver of pep735_resolve.rs and
\* resolve() agree on the dependency groups: both succeed with the same map
\* in the same key order, or both fail with the same kind, missing name,
\* referrer and cycle path.
C27_OldAndNewResolversAgree ==
    (Returned /\ project_name = <<>>) =>
        LET old == DependencyGroupsResolve(dependency_groups)
        IN  \/ /\ IsOk
               /\ old.tag = "Ok"
               /\ old.value = result.value.dependency_groups
            \/ /\ IsNotFound
               /\ result.kind = "DependencyGroupNotFound"
               /\ result.included_by.tag = "group"
               /\ old = GroupNotFound("dependency group", result.name,
                                      result.included_by.name)
            \/ /\ IsCycle
               /\ \A k \in 1..Len(result.cycle) : result.cycle[k].tag = "group"
               /\ old = DependencyGroupCycle("dependency-groups",
                            [k \in 1..Len(result.cycle) |-> result.cycle[k].name])

\* Both resolvers return a map in which a group includes another one, taken
\* from the memo by resolve().
C27_Witness ==
    /\ project_name = <<>>
    /\ IsOk
    /\ hits # <<>>
    /\ \E k \in 1..Len(dependency_groups) :
           \E i \in 1..Len(dependency_groups[k].val) :
               LET specifier == dependency_groups[k].val[i]
               IN  /\ specifier.t = "Table"
                   /\ Get(result.value.dependency_groups,
                          specifier.include_group) # <<>>
    /\ DependencyGroupsResolve(dependency_groups).tag = "Ok"

\* The complete expansion of an item: that of the body its lookup finds.
CompleteExpansion(item) ==
    IF item.tag = "extra" THEN ExpandExtra(item.name, Depth)
    ELSE IF FindGroup(dependency_groups, item.name) = 0 THEN <<>>
    ELSE ExpandGroupBody(
             dependency_groups[FindGroup(dependency_groups, item.name)].val, Depth)

\* C28: a key is in a resolved map only after its whole body has been
\* walked: no call that is walking a body has its name in the map of its
\* table, every list in a resolved map is the complete expansion of its
\* key, and whenever a memo lookup hit, the name was not on the ancestor
\* stack and the list returned was the complete expansion.
C28_MemoHoldsCompleteListsOnly ==
    /\ \A n \in 1..Len(hits) :
          /\ hits[n].item \notin Range(hits[n].on_stack)
          /\ hits[n].val = CompleteExpansion(hits[n].item)
    /\ \A k \in 1..Len(stack) :
          stack[k].st = "walk" =>
              ~ContainsKey(IF stack[k].fn = "extra" THEN resolved.optional_dependencies
                           ELSE resolved.dependency_groups, stack[k].name)
    /\ \A x \in Keys(resolved.optional_dependencies) :
          Get(resolved.optional_dependencies, x) = CompleteExpansion(Extra(x))
    /\ \A g \in Keys(resolved.dependency_groups) :
          Get(resolved.dependency_groups, g) = CompleteExpansion(Group(g))

\* A memo lookup hit below another call and returned a list that is not
\* empty.
C28_Witness ==
    \E n \in 1..Len(hits) :
        /\ hits[n].on_stack # <<>>
        /\ hits[n].val # <<>>
        /\ hits[n].val = CompleteExpansion(hits[n].item)

\* The resolved lists of the first n extras of a list of extras, one after
\* the other.
RECURSIVE ResolvedListsOf(_, _, _)
ResolvedListsOf(m, extras, n) ==
    IF n = 0 THEN <<>>
    ELSE ResolvedListsOf(m, extras, n - 1)
             \o (IF ContainsKey(m, extras[n]) THEN Get(m, extras[n]) ELSE <<>>)

NamesTheProject(r) == project_name = <<r.name>>

\* What the entries before entry i of a body, and the first j - 1 extras of
\* entry i, contribute, given the resolved maps res.
RECURSIVE ContributionsOf(_, _, _, _)
ContributionsOf(res, body, i, j) ==
    IF i = 0 THEN <<>>
    ELSE IF i > Len(body) THEN ContributionsOf(res, body, Len(body), MaxSize + 1)
    ELSE LET entry == body[i]
             r == RequirementOf(entry)
             before == ContributionsOf(res, body, i - 1, MaxSize + 1)
         IN  IF "t" \in DOMAIN entry /\ entry.t = "Table"
             THEN before \o (IF j > 1 /\ ContainsKey(res.dependency_groups,
                                                     entry.include_group)
                             THEN Get(res.dependency_groups, entry.include_group)
                             ELSE <<>>)
             ELSE IF NamesTheProject(r)
             THEN before \o ResolvedListsOf(res.optional_dependencies, r.extras,
                                IF j - 1 > Len(r.extras) THEN Len(r.extras) ELSE j - 1)
             ELSE before \o (IF j > 1 THEN <<r>> ELSE <<>>)

\* The body the lookup of a key of a table finds.
BodyFoundForExtra(x) == optional_dependencies[FindExtra(optional_dependencies, x)].val

\* C29: an entry whose name is the project name contributes the resolved
\* lists of its extras, one after the other, and nothing else: the list a
\* call has gathered, and every list of the result, is made of the literal
\* entries and of the resolved lists of the extras and included groups, so
\* that a self-reference without extras adds nothing, and no list holds a
\* requirement on the project itself, with or without its constraint.
C29_SelfReferenceContributesItsExtrasOnly ==
    /\ (result = Running /\ stack # <<>> /\ Top.st = "walk") =>
           /\ Top.acc = ContributionsOf(resolved, Top.body, Top.i, Top.j)
           /\ \A n \in 1..Len(Top.acc) : ~NamesTheProject(Top.acc[n])
    /\ IsOk =>
           /\ \A k \in 1..Len(optional_dependencies) :
                  LET x == optional_dependencies[k].key
                      list == Get(result.value.optional_dependencies, x)
                  IN  /\ list = ContributionsOf(result.value, BodyFoundForExtra(x),
                                                Len(BodyFoundForExtra(x)) + 1, 1)
                      /\ \A n \in 1..Len(list) : ~NamesTheProject(list[n])
           /\ \A k \in 1..Len(dependency_groups) :
                  LET list == Get(result.value.dependency_groups,
                                  dependency_groups[k].key)
                  IN  /\ list = ContributionsOf(result.value, dependency_groups[k].val,
                                                Len(dependency_groups[k].val) + 1, 1)
                      /\ \A n \in 1..Len(list) : ~NamesTheProject(list[n])

\* resolve() returned, for a key whose only entry is a self-reference that
\* carries a constraint, the resolved list of its extra, which is not empty.
C29_Witness ==
    /\ IsOk
    /\ \E k \in 1..Len(optional_dependencies) :
           LET body == optional_dependencies[k].val
           IN  /\ Len(body) = 1
               /\ NamesTheProject(body[1])
               /\ body[1].constraint # ""
               /\ body[1].extras # <<>>
               /\ Get(result.value.optional_dependencies,
                      optional_dependencies[k].key) # <<>>

============================================================================
